---- MODULE Spec2Model ----
(***************************************************************************)
(* Model of src/server.js: an Express server over one Mongoose collection  *)
(* ("Product") and a multer disk store ("uploads/").                       *)
(*                                                                         *)
(* Every request is a row of reqs.  A handler is cut at its awaits: one    *)
(* action per database operation, with the synchronous code around it.     *)
(* The multer middleware of a route runs before its handler and is the     *)
(* action that admits the request.                                         *)
(***************************************************************************)
EXTENDS Integers, Sequences, FiniteSets, TLC

VARIABLES
    db,             \* the products collection: _id -> document
    nextId,         \* the next _id the collection assigns
    disk,           \* uploads/: stored reference -> the upload whose bytes it holds
    now,            \* Date.now()
    step,           \* number of database operations executed so far
    omitUndefined,  \* the installed Mongoose drops undefined keys of an update
    reqs            \* the requests received, in order of arrival

vars == <<db, nextId, disk, now, step, omitUndefined, reqs>>

(***************************************************************************)
(* Bounds                                                                  *)
(***************************************************************************)
MaxReqs == 2
MaxIds == 2
MaxFiles == 2
MaxClock == 2

UploadLimit == 5

\* a well-formed _id the collection never assigns
NoSuchId == MaxIds + 1

(***************************************************************************)
(* JavaScript values.  A value is <<type, number, text>>; a stored file    *)
(* reference "uploads/<ts><ext>" keeps its timestamp and extension.        *)
(***************************************************************************)
Undefined == <<"undefined", 0, "">>
Null == <<"null", 0, "">>
Str(s) == <<"string", 0, s>>
Path(ts, ext) == <<"path", ts, ext>>

Truthy(v) == v \notin {Undefined, Null, Str("")}

\* a || b
Or(a, b) == IF Truthy(a) THEN a ELSE b

\* req.files[0]?.path
FirstPath(files) == IF Len(files) > 0 THEN files[1] ELSE Undefined

\* !product.isFavorite, on "undefined" | "true" | "false"
Negate(v) == IF v = "true" THEN "false" ELSE "true"

OriginalNames == {"img1.png", "photo.jpg"}

\* path.extname(file.originalname)
ExtName(name) == IF name = "img1.png" THEN ".png" ELSE ".jpg"

\* storage.filename
FileName(ts, name) == Path(ts, ExtName(name))

Range(s) == {s[i] : i \in DOMAIN s}

\* the featuredImage values a request body carries
BodyFeatured == {Undefined, Str(""), Str("cover")}

\* files of one request: at most the route's limit
FileCounts == 0..(IF MaxFiles < UploadLimit THEN MaxFiles ELSE UploadLimit)

NameSeqs == UNION {[1..n -> OriginalNames] : n \in FileCounts}

\* Date.now() read once per file, in order: it never runs backwards
Stamps(n) ==
    {t \in [1..n -> now..MaxClock] :
        /\ \A i \in 1..n : \A j \in 1..n : i < j => t[i] <= t[j]}

Paths(names, t) == [i \in 1..Len(names) |-> FileName(t[i], names[i])]

LastIndex(paths, p) ==
    CHOOSE i \in DOMAIN paths :
        /\ paths[i] = p
        /\ \A j \in DOMAIN paths : paths[j] = p => j <= i

\* multer.diskStorage: each file is written under its file name; a file
\* written under a name already there replaces it
DiskWrite(d, r, paths) ==
    [p \in DOMAIN d \cup Range(paths) |->
        IF p \in Range(paths) THEN <<r, LastIndex(paths, p)>> ELSE d[p]]

ClockAfter(t) == IF Len(t) = 0 THEN now ELSE t[Len(t)]

(***************************************************************************)
(* Documents.  fields stands for (sku, name, quantity, description): the   *)
(* number of the request whose body set them.                              *)
(***************************************************************************)
Doc(f, imgs, feat, fav) ==
    [fields |-> f, images |-> imgs, featuredImage |-> feat, isFavorite |-> fav]

\* a create that prefers the first uploaded file to the value of the body
NewProduct_FirstFile(r, feat, files) ==
    Doc(r, files, Or(FirstPath(files), feat), "undefined")

\* new Product({...}) of POST /api/products
NewProduct(r, feat, files) ==
    Doc(r, files, Or(feat, FirstPath(files)), "undefined")

\* an update that always takes images from the request's files
UpdatedData_NoCarry(r, feat, files, read) ==
    [fields |-> r,
     featuredImage |-> Or(feat, FirstPath(files)),
     images |-> files]

\* updatedData of PUT /api/products/:id
UpdatedData(r, feat, files, read) ==
    [fields |-> r,
     featuredImage |-> Or(feat, FirstPath(files)),
     images |-> IF Len(files) > 0 THEN files ELSE read[1].images]

\* Product.findByIdAndUpdate(id, updatedData, {new: true}) on a document.
\* The keys of updatedData are $set; isFavorite is not among them.  A key whose
\* value is undefined is dropped by Mongoose 6 and later, and sent by Mongoose 5
\* (where the driver stores it as null): the build decides, see omitUndefined.
ApplyUpdate(doc, upd) ==
    [doc EXCEPT !.fields = upd.fields,
                !.images = upd.images,
                !.featuredImage =
                    IF upd.featuredImage = Undefined
                    THEN (IF omitUndefined THEN @ ELSE Null)
                    ELSE upd.featuredImage]

\* Product.findById
FindById(id) == IF id \in DOMAIN db THEN <<db[id]>> ELSE <<>>

\* a delete that removes nothing
Without_Keep(id) == db

\* the collection without the document id
Without(id) == [i \in DOMAIN db \ {id} |-> db[i]]

\* a handler that sets the flag instead of inverting it
Toggled_SetTrue(doc) == [doc EXCEPT !.isFavorite = "true"]

\* product.isFavorite = !product.isFavorite, on the document read
Toggled(doc) == [doc EXCEPT !.isFavorite = Negate(@)]

(***************************************************************************)
(* Requests                                                                *)
(***************************************************************************)
Req(kind, id, feat, mp, files, pc, status, err, read, resp, readAt, writeAt) ==
    [kind |-> kind, id |-> id, feat |-> feat, multipart |-> mp, files |-> files,
     pc |-> pc, status |-> status, err |-> err, read |-> read, resp |-> resp,
     readAt |-> readAt, writeAt |-> writeAt]

Finish(q, status, err, resp, writeAt) ==
    [q EXCEPT !.pc = "done", !.status = status, !.err = err, !.resp = resp,
              !.writeAt = writeAt]

\* the ids a client can name: those the collection has assigned, and NoSuchId
Ids == (1..(nextId - 1)) \cup {NoSuchId}

Room == Len(reqs) < MaxReqs
NewReq == Len(reqs) + 1

InFlightPosts ==
    Cardinality({r \in DOMAIN reqs : reqs[r].kind = "post" /\ reqs[r].pc # "done"})

(***************************************************************************)
(* The collection and the upload directory the server starts with: empty,  *)
(* or one product left by an earlier run with its two files.               *)
(***************************************************************************)
P0 == Path(0, ".png")
Q0 == Path(0, ".jpg")

InitDocs ==
    {Doc(0, <<P0, Q0>>, feat, fav) :
        feat \in {Str("cover")}, fav \in {"undefined", "true"}}

Init ==
    /\ \/ /\ db = <<>>
          /\ nextId = 1
          /\ disk = <<>>
       \/ /\ \E d \in InitDocs : db = (1 :> d)
          /\ nextId = 2
          /\ disk = (P0 :> <<0, 1>>) @@ (Q0 :> <<0, 2>>)
    /\ now = 1
    /\ step = 0
    /\ omitUndefined \in BOOLEAN
    /\ reqs = <<>>

(***************************************************************************)
(* POST /upload                                                            *)
(***************************************************************************)
Upload(name, t) ==
    /\ Room
    /\ LET paths == Paths(<<name>>, t)
       IN /\ disk' = DiskWrite(disk, NewReq, paths)
          /\ now' = ClockAfter(t)
          /\ reqs' = Append(reqs,
                Req("upload", 0, Undefined, TRUE, paths, "done", 200, "none",
                    <<>>, <<>>, 0, 0))
    /\ UNCHANGED <<db, nextId, step, omitUndefined>>

(***************************************************************************)
(* POST /api/products                                                      *)
(***************************************************************************)
\* upload.array("images", 5); a body that is not multipart leaves req.files unset
PostFiles(feat, mp, names, t) ==
    /\ Room
    /\ nextId + InFlightPosts <= MaxIds
    /\ ~mp => Len(names) = 0
    /\ LET paths == Paths(names, t)
       IN /\ disk' = DiskWrite(disk, NewReq, paths)
          /\ now' = ClockAfter(t)
          /\ reqs' = Append(reqs,
                Req("post", 0, feat, mp, paths, "handler", 0, "none",
                    <<>>, <<>>, 0, 0))
    /\ UNCHANGED <<db, nextId, step, omitUndefined>>

\* req.files.map throws on a body that is not multipart
PostThrow(r) ==
    /\ reqs[r].kind = "post" /\ reqs[r].pc = "handler"
    /\ ~reqs[r].multipart
    /\ reqs' = [reqs EXCEPT ![r] = Finish(@, 500, "TypeError", <<>>, 0)]
    /\ UNCHANGED <<db, nextId, disk, now, step, omitUndefined>>

\* new Product({...}); await product.save()
PostSave(r, ok) ==
    /\ reqs[r].kind = "post" /\ reqs[r].pc = "handler"
    /\ reqs[r].multipart
    /\ step' = step + 1
    /\ IF ok
       THEN LET product == NewProduct(r, reqs[r].feat, reqs[r].files)
            IN /\ db' = db @@ (nextId :> product)
               /\ nextId' = nextId + 1
               /\ reqs' = [reqs EXCEPT ![r] =
                    Finish([@ EXCEPT !.id = nextId], 201, "none", <<product>>, step')]
       ELSE /\ reqs' = [reqs EXCEPT ![r] = Finish(@, 500, "db", <<>>, 0)]
            /\ UNCHANGED <<db, nextId>>
    /\ UNCHANGED <<disk, now, omitUndefined>>

(***************************************************************************)
(* GET /api/products/:id                                                   *)
(***************************************************************************)
Get(id, ok) ==
    /\ Room
    /\ step' = step + 1
    /\ LET q == Req("get", id, Undefined, FALSE, <<>>, "handler", 0, "none",
                    <<>>, <<>>, step', 0)
           product == FindById(id)
       IN reqs' = Append(reqs,
            IF ~ok THEN Finish(q, 500, "db", <<>>, 0)
            ELSE IF product = <<>> THEN Finish(q, 404, "none", <<>>, 0)
            ELSE Finish([q EXCEPT !.read = product], 200, "none", product, 0))
    /\ UNCHANGED <<db, nextId, disk, now, omitUndefined>>

(***************************************************************************)
(* PUT /api/products/:id                                                   *)
(***************************************************************************)
PutFiles(id, feat, mp, names, t) ==
    /\ Room
    /\ ~mp => Len(names) = 0
    /\ LET paths == Paths(names, t)
       IN /\ disk' = DiskWrite(disk, NewReq, paths)
          /\ now' = ClockAfter(t)
          /\ reqs' = Append(reqs,
                Req("put", id, feat, mp, paths, "handler", 0, "none",
                    <<>>, <<>>, 0, 0))
    /\ UNCHANGED <<db, nextId, step, omitUndefined>>

\* req.files[0] throws on a body that is not multipart
PutThrow(r) ==
    /\ reqs[r].kind = "put" /\ reqs[r].pc = "handler"
    /\ ~reqs[r].multipart
    /\ reqs' = [reqs EXCEPT ![r] = Finish(@, 500, "TypeError", <<>>, 0)]
    /\ UNCHANGED <<db, nextId, disk, now, step, omitUndefined>>

\* no new files: const product = await Product.findById(id);
\* updatedData.images = product.images
PutFind(r, ok) ==
    /\ reqs[r].kind = "put" /\ reqs[r].pc = "handler"
    /\ reqs[r].multipart
    /\ Len(reqs[r].files) = 0
    /\ step' = step + 1
    /\ LET product == FindById(reqs[r].id)
       IN reqs' = [reqs EXCEPT ![r] =
            IF ~ok THEN Finish(@, 500, "db", <<>>, 0)
            ELSE IF product = <<>>
                 THEN Finish([@ EXCEPT !.readAt = step'], 500, "TypeError", <<>>, 0)
            ELSE [@ EXCEPT !.pc = "update", !.read = product, !.readAt = step']]
    /\ UNCHANGED <<db, nextId, disk, now, omitUndefined>>

\* an update that leaves images out of updatedData when no file is uploaded
PutUpdateResult_KeepStored(r) ==
    LET upd == UpdatedData(r, reqs[r].feat, reqs[r].files, reqs[r].read)
    IN ApplyUpdate(db[reqs[r].id],
           [upd EXCEPT !.images =
                IF Len(reqs[r].files) > 0 THEN @ ELSE db[reqs[r].id].images])

\* the document findByIdAndUpdate stores and returns
PutUpdateResult(r) ==
    ApplyUpdate(db[reqs[r].id],
                UpdatedData(r, reqs[r].feat, reqs[r].files, reqs[r].read))

\* await Product.findByIdAndUpdate(id, updatedData, {new: true})
PutUpdate(r, ok) ==
    /\ reqs[r].kind = "put"
    /\ \/ reqs[r].pc = "update"
       \/ /\ reqs[r].pc = "handler"
          /\ reqs[r].multipart
          /\ Len(reqs[r].files) > 0
    /\ step' = step + 1
    /\ IF ~ok
       THEN /\ reqs' = [reqs EXCEPT ![r] = Finish(@, 500, "db", <<>>, 0)]
            /\ UNCHANGED db
       ELSE IF reqs[r].id \notin DOMAIN db
       THEN /\ reqs' = [reqs EXCEPT ![r] = Finish(@, 404, "none", <<>>, step')]
            /\ UNCHANGED db
       ELSE /\ db' = [db EXCEPT ![reqs[r].id] = PutUpdateResult(r)]
            /\ reqs' = [reqs EXCEPT ![r] =
                    Finish(@, 200, "none", <<PutUpdateResult(r)>>, step')]
    /\ UNCHANGED <<nextId, disk, now, omitUndefined>>

(***************************************************************************)
(* PUT /api/products/:id/favorite                                          *)
(***************************************************************************)
\* const product = await Product.findById(id)
FavFind(id, ok) ==
    /\ Room
    /\ step' = step + 1
    /\ LET q == Req("fav", id, Undefined, FALSE, <<>>, "handler", 0, "none",
                    <<>>, <<>>, step', 0)
           product == FindById(id)
       IN reqs' = Append(reqs,
            IF ~ok THEN Finish(q, 500, "db", <<>>, 0)
            ELSE IF product = <<>> THEN Finish(q, 404, "none", <<>>, 0)
            ELSE [q EXCEPT !.pc = "save", !.read = product])
    /\ UNCHANGED <<db, nextId, disk, now, omitUndefined>>

\* a save that inverts the stored flag in the database itself
SaveFavorite_Atomic(stored, product) ==
    [stored EXCEPT !.isFavorite = Negate(@)]

\* what product.save() stores: the modified path isFavorite of the document read
SaveFavorite(stored, product) ==
    [stored EXCEPT !.isFavorite = product.isFavorite]

\* a save that inserts the document when none has that _id
FavWrite_Upsert(id, product) ==
    IF id \in DOMAIN db
    THEN [db EXCEPT ![id] = SaveFavorite(@, product)]
    ELSE db @@ (id :> product)

\* the update product.save() sends: {$set: {isFavorite}} on the document with
\* that _id, if any.  When none matches, save() rejects with
\* DocumentNotFoundError (Mongoose 5.7 and later, the versions that know the
\* useUnifiedTopology option of line 25).
FavWrite(id, product) ==
    IF id \in DOMAIN db
    THEN [db EXCEPT ![id] = SaveFavorite(@, product)]
    ELSE db

\* product.isFavorite = !product.isFavorite; await product.save()
FavSave(r, ok) ==
    /\ reqs[r].kind = "fav" /\ reqs[r].pc = "save"
    /\ step' = step + 1
    /\ LET product == Toggled(reqs[r].read[1])
           id == reqs[r].id
       IN IF ~ok
          THEN /\ reqs' = [reqs EXCEPT ![r] = Finish(@, 500, "db", <<>>, 0)]
               /\ UNCHANGED db
          ELSE IF id \notin DOMAIN db
          THEN /\ db' = FavWrite(id, product)
               /\ reqs' = [reqs EXCEPT ![r] =
                    Finish(@, 500, "DocumentNotFoundError", <<>>, step')]
          ELSE /\ db' = FavWrite(id, product)
               /\ reqs' = [reqs EXCEPT ![r] =
                    Finish(@, 200, "none", <<product>>, step')]
    /\ UNCHANGED <<nextId, disk, now, omitUndefined>>

(***************************************************************************)
(* DELETE /api/products/:id                                                *)
(***************************************************************************)
Delete(id, ok) ==
    /\ Room
    /\ step' = step + 1
    /\ LET q == Req("del", id, Undefined, FALSE, <<>>, "handler", 0, "none",
                    <<>>, <<>>, 0, 0)
       IN IF ok
          THEN /\ db' = Without(id)
               /\ reqs' = Append(reqs, Finish(q, 204, "none", <<>>, step'))
          ELSE /\ reqs' = Append(reqs, Finish(q, 500, "db", <<>>, 0))
               /\ UNCHANGED db
    /\ UNCHANGED <<nextId, disk, now, omitUndefined>>

Next ==
    \/ Room /\ \E name \in OriginalNames : \E t \in Stamps(1) : Upload(name, t)
    \/ Room /\ \E feat \in BodyFeatured, mp \in BOOLEAN, names \in NameSeqs :
          \E t \in Stamps(Len(names)) : PostFiles(feat, mp, names, t)
    \/ \E r \in DOMAIN reqs : PostThrow(r)
    \/ \E r \in DOMAIN reqs, ok \in BOOLEAN : PostSave(r, ok)
    \/ Room /\ \E id \in Ids, ok \in BOOLEAN : Get(id, ok)
    \/ Room /\ \E id \in Ids, feat \in BodyFeatured, mp \in BOOLEAN, names \in NameSeqs :
          \E t \in Stamps(Len(names)) : PutFiles(id, feat, mp, names, t)
    \/ \E r \in DOMAIN reqs : PutThrow(r)
    \/ \E r \in DOMAIN reqs, ok \in BOOLEAN : PutFind(r, ok)
    \/ \E r \in DOMAIN reqs, ok \in BOOLEAN : PutUpdate(r, ok)
    \/ Room /\ \E id \in Ids, ok \in BOOLEAN : FavFind(id, ok)
    \/ \E r \in DOMAIN reqs, ok \in BOOLEAN : FavSave(r, ok)
    \/ Room /\ \E id \in Ids, ok \in BOOLEAN : Delete(id, ok)

Spec == Init /\ [][Next]_vars

(***************************************************************************)
(* History read off the request table                                      *)
(***************************************************************************)
Done(r) == reqs[r].pc = "done"

\* the step at which r changed the collection; 0 when it did not
WroteAt(r) == IF reqs[r].status \in {200, 201, 204} THEN reqs[r].writeAt ELSE 0

\* the step of r's last database operation
LastOp(r) == IF reqs[r].writeAt > reqs[r].readAt THEN reqs[r].writeAt ELSE reqs[r].readAt

\* a request outside S wrote to the product id after step a and before step b
OtherWrite(id, a, b, S) ==
    \E x \in DOMAIN reqs \ S :
        /\ reqs[x].id = id
        /\ WroteAt(x) > a
        /\ WroteAt(x) < b

\* nothing wrote to r's product after r did
LastWriter(r) == ~OtherWrite(reqs[r].id, WroteAt(r), step + 1, {r})

\* an unset isFavorite counts as false
AsBool(v) == IF v = "true" THEN "true" ELSE "false"

Opposite(v) == IF AsBool(v) = "true" THEN "false" ELSE "true"

\* the first entry of a sequence of images, if any
Head1(imgs) == IF imgs = <<>> THEN Undefined ELSE imgs[1]

\* r is a PUT /api/products/:id whose handler returns in this step
PutReturns(r) ==
    /\ r \in DOMAIN reqs
    /\ reqs[r].kind = "put"
    /\ reqs[r].pc # "done"
    /\ reqs'[r].pc = "done"

(***************************************************************************)
(* C1  PUT /api/products/:id on an identifier with no matching document    *)
(* responds 404, with new files and with none, and creates no document.    *)
(* Stated for multipart requests whose database calls do not fail, on an   *)
(* identifier the collection never assigned.                               *)
(***************************************************************************)
CE_C1 ==
    \A r \in DOMAIN reqs :
        (/\ reqs[r].kind = "put"
         /\ Done(r)
         /\ reqs[r].multipart
         /\ reqs[r].err # "db"
         /\ reqs[r].id = NoSuchId)
        => /\ reqs[r].status = 404
           /\ reqs[r].id \notin DOMAIN db

(***************************************************************************)
(* C2  A successful PUT /api/products/:id with no other write to the       *)
(* product between its steps: without new files the stored images are the  *)
(* stored images of before; with new files they are exactly the stored     *)
(* references of the new files, in upload order.                           *)
(***************************************************************************)
Thm_C2 ==
    [][\A r \in DOMAIN reqs :
         (PutReturns(r) /\ reqs'[r].status = 200) =>
            IF Len(reqs[r].files) = 0
            THEN ~OtherWrite(reqs[r].id, reqs[r].readAt, step + 1, {r})
                 => db'[reqs[r].id].images = db[reqs[r].id].images
            ELSE db'[reqs[r].id].images = reqs[r].files]_vars

Wit_C2 ==
    \E r \in DOMAIN reqs : \E s \in DOMAIN reqs :
        /\ reqs[r].kind = "put" /\ reqs[r].status = 200
        /\ Len(reqs[r].files) = 2
        /\ reqs[r].files[1] # reqs[r].files[2]
        /\ reqs[s].kind = "put" /\ reqs[s].status = 200
        /\ Len(reqs[s].files) = 0
        /\ reqs[s].id = reqs[r].id
        /\ reqs[s].readAt > reqs[r].writeAt
        /\ db[reqs[s].id].images = reqs[r].files

(***************************************************************************)
(* C3  After a successful PUT /api/products/:id whose body supplies no     *)
(* featuredImage, the stored featuredImage is the first entry of the       *)
(* stored images, with new files and with images carried over.             *)
(***************************************************************************)
CE_C3 ==
    \A r \in DOMAIN reqs :
        (/\ reqs[r].kind = "put"
         /\ reqs[r].status = 200
         /\ reqs[r].feat = Undefined
         /\ LastWriter(r))
        => db[reqs[r].id].featuredImage = Head1(db[reqs[r].id].images)

(***************************************************************************)
(* C4  POST /api/products with N files stores featuredImage = the supplied *)
(* value when one is supplied, else the first file's stored reference,     *)
(* else absent; and images = the stored references in upload order.        *)
(* CE_C4 is the claim as stated; Thm_C4 holds for a supplied value that is *)
(* not the empty string, an empty one counting as none.                    *)
(***************************************************************************)
Created(r) ==
    /\ reqs[r].kind = "post"
    /\ reqs[r].status = 201
    /\ LastWriter(r)

CE_C4 ==
    \A r \in DOMAIN reqs :
        Created(r) =>
            /\ db[reqs[r].id].images = reqs[r].files
            /\ db[reqs[r].id].featuredImage =
                    IF reqs[r].feat # Undefined THEN reqs[r].feat
                    ELSE IF Len(reqs[r].files) >= 1 THEN reqs[r].files[1]
                    ELSE Undefined

Thm_C4 ==
    \A r \in DOMAIN reqs :
        Created(r) =>
            /\ db[reqs[r].id].images = reqs[r].files
            /\ db[reqs[r].id].featuredImage =
                    IF reqs[r].feat \notin {Undefined, Str("")} THEN reqs[r].feat
                    ELSE IF Len(reqs[r].files) >= 1 THEN reqs[r].files[1]
                    ELSE Undefined

Wit_C4 ==
    \E r \in DOMAIN reqs : \E s \in DOMAIN reqs :
        /\ Created(r) /\ Created(s)
        /\ reqs[r].feat = Str("cover") /\ Len(reqs[r].files) = 2
        /\ db[reqs[r].id].featuredImage = Str("cover")
        /\ reqs[s].feat = Str("") /\ Len(reqs[s].files) = 2
        /\ db[reqs[s].id].featuredImage = reqs[s].files[1]

(***************************************************************************)
(* C5  Two favorite toggles of an existing product, one after the other    *)
(* with no other write to it in between and no failing database call:      *)
(* both respond 200, the first response carries the negated value, the     *)
(* second the original one, and the stored isFavorite is the original one  *)
(* (unset counting as false).                                              *)
(***************************************************************************)
TogglePair(a, b) ==
    /\ reqs[a].kind = "fav" /\ reqs[b].kind = "fav"
    /\ reqs[a].id = reqs[b].id
    /\ Done(a) /\ Done(b)
    /\ reqs[a].err # "db" /\ reqs[b].err # "db"
    /\ reqs[a].read # <<>>
    /\ reqs[a].writeAt < reqs[b].readAt
    /\ ~OtherWrite(reqs[a].id, reqs[a].readAt, LastOp(b), {a, b})

Thm_C5 ==
    \A a \in DOMAIN reqs : \A b \in DOMAIN reqs :
        TogglePair(a, b) =>
            LET orig == reqs[a].read[1].isFavorite
            IN /\ reqs[a].status = 200
               /\ reqs[b].status = 200
               /\ reqs[a].resp[1].isFavorite = Opposite(orig)
               /\ reqs[b].resp[1].isFavorite = AsBool(orig)
               /\ LastWriter(b) => db[reqs[b].id].isFavorite = AsBool(orig)

Wit_C5 ==
    \E a \in DOMAIN reqs : \E b \in DOMAIN reqs :
        /\ TogglePair(a, b)
        /\ reqs[a].read[1].isFavorite = "true"
        /\ reqs[b].status = 200
        /\ db[reqs[b].id].isFavorite = "true"

(***************************************************************************)
(* C6  DELETE /api/products/:id whose database call does not fail responds *)
(* 204 whether or not the document existed; after it no document has that  *)
(* id and every other product is unchanged; a later GET of that id         *)
(* responds 404.                                                           *)
(***************************************************************************)
DeleteReturns(r) ==
    /\ r = Len(reqs) + 1
    /\ r \in DOMAIN reqs'
    /\ reqs'[r].kind = "del"

Thm_C6 ==
    /\ [](\A d \in DOMAIN reqs :
            reqs[d].kind = "del" /\ reqs[d].err # "db" =>
                /\ reqs[d].status = 204
                /\ \A g \in DOMAIN reqs :
                      (/\ reqs[g].kind = "get"
                       /\ reqs[g].id = reqs[d].id
                       /\ reqs[g].err # "db"
                       /\ reqs[g].readAt > reqs[d].writeAt)
                      => reqs[g].status = 404)
    /\ [][\A r \in 1..MaxReqs + 1 :
            DeleteReturns(r) /\ reqs'[r].err # "db" =>
                /\ reqs'[r].id \notin DOMAIN db'
                /\ \A i \in DOMAIN db \ {reqs'[r].id} :
                      i \in DOMAIN db' /\ db'[i] = db[i]]_vars

Wit_C6 ==
    \E d \in DOMAIN reqs : \E g \in DOMAIN reqs :
        /\ reqs[d].kind = "del" /\ reqs[d].status = 204
        /\ reqs[d].id < nextId
        /\ reqs[g].kind = "get" /\ reqs[g].id = reqs[d].id
        /\ reqs[g].readAt > reqs[d].writeAt
        /\ reqs[g].status = 404

(***************************************************************************)
(* C7  Two favorite toggles of one product that both read before either    *)
(* saves, with no other write to it and no failing database call: both     *)
(* respond 200 with the same negated value and the stored isFavorite is    *)
(* negated once, not restored.                                             *)
(***************************************************************************)
ToggleRace(a, b) ==
    /\ a # b
    /\ reqs[a].kind = "fav" /\ reqs[b].kind = "fav"
    /\ reqs[a].id = reqs[b].id
    /\ Done(a) /\ Done(b)
    /\ reqs[a].err # "db" /\ reqs[b].err # "db"
    /\ reqs[a].read # <<>> /\ reqs[b].read # <<>>
    /\ reqs[a].readAt < reqs[b].readAt
    /\ reqs[b].readAt < LastOp(a)
    /\ reqs[b].readAt < LastOp(b)
    /\ ~OtherWrite(reqs[a].id, reqs[a].readAt, step + 1, {a, b})

Thm_C7 ==
    \A a \in DOMAIN reqs : \A b \in DOMAIN reqs :
        ToggleRace(a, b) =>
            LET orig == reqs[a].read[1].isFavorite
            IN /\ reqs[b].read[1].isFavorite = orig
               /\ reqs[a].status = 200
               /\ reqs[b].status = 200
               /\ reqs[a].resp[1].isFavorite = Opposite(orig)
               /\ reqs[b].resp[1].isFavorite = Opposite(orig)
               /\ db[reqs[a].id].isFavorite = Opposite(orig)

Wit_C7 ==
    \E a \in DOMAIN reqs : \E b \in DOMAIN reqs :
        /\ ToggleRace(a, b)
        /\ reqs[a].read[1].isFavorite = "true"
        /\ reqs[a].status = 200 /\ reqs[b].status = 200
        /\ db[reqs[a].id].isFavorite = "false"

(***************************************************************************)
(* C8  Update A (no new files) reads the product, update B (new files)     *)
(* writes, then A writes, with no other write to the product and no        *)
(* failing database call: both respond 200 and the stored images are the   *)
(* ones A read, B's being lost.  The stored document is the one the last   *)
(* update wrote.                                                           *)
(***************************************************************************)
UpdateRace(a, b) ==
    /\ reqs[a].kind = "put" /\ reqs[b].kind = "put"
    /\ reqs[a].id = reqs[b].id
    /\ Done(a) /\ Done(b)
    /\ reqs[a].err # "db" /\ reqs[b].err # "db"
    /\ Len(reqs[a].files) = 0 /\ reqs[a].read # <<>>
    /\ Len(reqs[b].files) > 0
    /\ reqs[a].readAt < reqs[b].writeAt
    /\ reqs[b].writeAt < reqs[a].writeAt
    /\ ~OtherWrite(reqs[a].id, reqs[a].readAt, reqs[a].writeAt, {a, b})

Thm_C8 ==
    /\ \A a \in DOMAIN reqs : \A b \in DOMAIN reqs :
          UpdateRace(a, b) =>
              /\ reqs[a].status = 200
              /\ reqs[b].status = 200
              /\ reqs[b].resp[1].images = reqs[b].files
              /\ reqs[a].resp[1].images = reqs[a].read[1].images
              /\ LastWriter(a) => db[reqs[a].id].images = reqs[a].read[1].images
    /\ \A r \in DOMAIN reqs :
          (/\ reqs[r].kind = "put"
           /\ reqs[r].status = 200
           /\ LastWriter(r))
          => db[reqs[r].id] = reqs[r].resp[1]

Wit_C8 ==
    \E a \in DOMAIN reqs : \E b \in DOMAIN reqs :
        /\ UpdateRace(a, b)
        /\ reqs[a].status = 200 /\ reqs[b].status = 200
        /\ db[reqs[a].id].images = <<P0, Q0>>
        /\ db[reqs[a].id].images # reqs[b].files
        /\ db[reqs[a].id].fields = a

(***************************************************************************)
(* C9  Any two distinct uploaded files receive distinct stored references, *)
(* so no stored file is overwritten by a later upload.                     *)
(***************************************************************************)
CE_C9 ==
    \A r \in DOMAIN reqs : \A s \in DOMAIN reqs :
        \A i \in DOMAIN reqs[r].files : \A j \in DOMAIN reqs[s].files :
            /\ <<r, i>> # <<s, j>> => reqs[r].files[i] # reqs[s].files[j]
            /\ disk[reqs[r].files[i]] = <<r, i>>

(***************************************************************************)
(* C10  A deleted product is never brought back: after a DELETE that did   *)
(* not fail no document has that id again, an update or favorite toggle    *)
(* of that id that finishes after it ends with 404 or 500, and only        *)
(* POST /api/products adds a document, under an id never used before.      *)
(***************************************************************************)
PostReturns(r) ==
    /\ r \in DOMAIN reqs
    /\ reqs[r].kind = "post"
    /\ reqs[r].pc # "done"
    /\ reqs'[r].status = 201

Thm_C10 ==
    /\ [](\A d \in DOMAIN reqs :
            reqs[d].kind = "del" /\ reqs[d].status = 204 =>
                /\ reqs[d].id \notin DOMAIN db
                /\ \A x \in DOMAIN reqs :
                      (/\ reqs[x].kind \in {"put", "fav"}
                       /\ reqs[x].id = reqs[d].id
                       /\ Done(x)
                       /\ LastOp(x) > reqs[d].writeAt)
                      => reqs[x].status \in {404, 500})
    /\ [](\A i \in DOMAIN db : i < nextId)
    /\ [][\A i \in DOMAIN db' \ DOMAIN db :
            /\ i = nextId
            /\ nextId' = nextId + 1
            /\ \E r \in DOMAIN reqs : PostReturns(r) /\ reqs'[r].id = i]_vars

Wit_C10 ==
    \E d \in DOMAIN reqs : \E x \in DOMAIN reqs :
        /\ reqs[d].kind = "del" /\ reqs[d].status = 204
        /\ reqs[x].kind = "fav" /\ reqs[x].id = reqs[d].id
        /\ reqs[x].read # <<>>
        /\ reqs[x].readAt < reqs[d].writeAt
        /\ reqs[x].writeAt > reqs[d].writeAt
        /\ reqs[x].status = 500
        /\ reqs[x].id \notin DOMAIN db

====
